---- MODULE Spec2Model ----
(***************************************************************************)
(* LoadableViewState and EditableViewState of @felipearpa/viewing-state.   *)
(*                                                                         *)
(* The library is two immutable tagged unions with read-only operations.   *)
(* The model is a client that holds one instance of each type, builds new  *)
(* instances with the static factories and calls the operations on them.   *)
(* Each operation is a pure operator translated from its method body; it   *)
(* yields the method's outcome (a return or a throw) and the sequence of   *)
(* callback invocations the method made.  The actions record the last call *)
(* (op, recv, args, outcome, calls) so that properties of one call are     *)
(* state predicates.                                                       *)
(***************************************************************************)
EXTENDS Integers, Sequences, FiniteSets, TLC

VARIABLES
    lvs,      \* the LoadableViewState instance the client holds
    evs,      \* the EditableViewState instance the client holds
    op,       \* name of the last operation called
    recv,     \* the receiver (`this`) of the last call; NoInstance for a factory
    args,     \* the arguments of the last call
    outcome,  \* how the last call ended: [kind |-> "return" | "throw", val |-> ...]
    calls,    \* the callbacks the last call invoked, in order: <<[fn, argv]>>
    scheduled,\* the callbacks the last call left to be invoked after it returned
    built     \* the held instances as their constructors returned them

vars == <<lvs, evs, op, recv, args, outcome, calls, scheduled, built>>

---------------------------------------------------------------------------
(* Bounds of the model *)

NumValues == 2       \* distinct non-null values of the type parameter Value
NumErrors == 2       \* distinct Error objects
NumHandlers == 4     \* distinct handler functions a client can pass to fold

---------------------------------------------------------------------------
(* JavaScript values.  Every value is a record [k, n] so that any two can  *)
(* be compared.                                                            *)

Null == [k |-> "null", n |-> 0]
Undefined == [k |-> "undefined", n |-> 0]
V(i) == [k |-> "value", n |-> i]
E(i) == [k |-> "error", n |-> i]

\* The values a caller can pass for a `Value` (a nullable Value when the caller
\* chooses so) and for an `Error`.
Values == {V(i) : i \in 1..NumValues} \cup {Null, Undefined}
\* EditableViewState only stores and passes on its payloads and never tests
\* them, so the non-null values stand for all of them there.
EditableValues == {V(i) : i \in 1..NumValues}
Errors == {E(i) : i \in 1..NumErrors}

\* `x != null` (loose inequality): false for null and for undefined.
LooseNotNull(x) == x \notin {Null, Undefined}

\* Property read `o.f`: undefined when the object has no such property.
Get(o, f) == IF f \in DOMAIN o THEN o[f] ELSE Undefined

\* Function values.  A function is known by its identity; calling it is
\* recorded by the operation that calls it.
Fn(kind, id) == [kind |-> kind, id |-> id, t |-> "function"]
Typeof(x) == x.t

TransformIds == {1, 2, 3}
Transforms == {Fn("transform", i) : i \in TransformIds}
Handlers == {Fn("handler", i) : i \in 1..NumHandlers}

\* The next non-null value after v, cyclically.
NextValue(v) == IF v.k = "value" THEN V((v.n % NumValues) + 1) ELSE V(1)

\* What a transform returns: 1 is x => x, 2 is x => null, 3 maps every value to
\* another non-null value.
TransformResult(id, v) ==
    CASE id = 1 -> v
      [] id = 2 -> Null
      [] OTHER  -> NextValue(v)

\* x => g(f(x)) for two transforms f and g: the closure is known by the pair.
Compose(g, f) == Fn("composed", (g.id * 10) + f.id)

\* (a1, .., an) => ai, and () => null.
Argument(i) == Fn("argument", i)
ConstantNull == Fn("null", 0)

\* What calling fn with the argument list argv returns.  A handler returns a
\* result that tells which handler produced it and from which arguments.
Call(fn, argv) ==
    CASE fn.kind = "transform" -> TransformResult(fn.id, argv[1])
      [] fn.kind = "composed" ->
            TransformResult(fn.id \div 10, TransformResult(fn.id % 10, argv[1]))
      [] fn.kind = "argument" -> argv[fn.id]
      [] fn.kind = "null" -> Null
      [] OTHER -> [k |-> "result", n |-> fn.id, argv |-> argv]

Invocation(fn, argv) == [fn |-> fn, argv |-> argv]

\* How a method ends: its outcome, the invocations it made on the way, and the
\* invocations it handed to a timer or a promise; no method does the latter.
Return(v, cs) ==
    [outcome |-> [kind |-> "return", val |-> v], calls |-> cs, scheduled |-> <<>>]
Throw(e, cs) ==
    [outcome |-> [kind |-> "throw", val |-> e], calls |-> cs, scheduled |-> <<>>]

\* A callback that raises when it is called, and the error it raises.
Raiser(id) == Fn("raiser", id)
Raises(fn) == fn.kind = "raiser"
Raised(fn) == [k |-> "error", n |-> NumErrors + fn.id]

\* `return fn(...argv)`: the error fn raises goes up to the caller.
ReturnCall(fn, argv) ==
    IF Raises(fn)
    THEN Throw(Raised(fn), <<Invocation(fn, argv)>>)
    ELSE Return(Call(fn, argv), <<Invocation(fn, argv)>>)

\* `fn(...argv); return v`
CallThenReturn(fn, argv, v) ==
    IF Raises(fn)
    THEN Throw(Raised(fn), <<Invocation(fn, argv)>>)
    ELSE Return(v, <<Invocation(fn, argv)>>)

\* A boolean and a string as JavaScript values.
Bool(b) == [k |-> "boolean", b |-> b]
Str(text) == [k |-> "string", s |-> text]

DigitChars == <<"0", "1", "2", "3", "4", "5", "6", "7", "8", "9">>

RECURSIVE Numeral(_)
Numeral(i) ==
    IF i < 10 THEN DigitChars[i + 1]
    ELSE Numeral(i \div 10) \o DigitChars[(i % 10) + 1]

\* String(x), which is also what a template literal `${x}` makes of x: the
\* i-th value is the string 'v<i>', the i-th error is Error('e<i>').
JsString(x) ==
    CASE x.k = "value"     -> "v" \o Numeral(x.n)
      [] x.k = "error"     -> "Error: e" \o Numeral(x.n)
      [] x.k = "null"      -> "null"
      [] x.k = "undefined" -> "undefined"

---------------------------------------------------------------------------
(* Object identity.  Every `new LoadableViewState(..)` / `new              *)
(* EditableViewState(..)` is a distinct object; ref is its identity among  *)
(* the objects of its class.  Only the objects the client still holds      *)
(* matter, so a new object takes the least identity no held object of its  *)
(* class has.                                                              *)

NoInstance == [ref |-> 0]

FreshRef(held) ==
    CHOOSE r \in 1..(Cardinality(held) + 1) : r \notin held

---------------------------------------------------------------------------
(* LoadableViewState *)

InitialType == [type |-> "initial"]
LoadingType == [type |-> "loading"]
SuccessType(value) == [type |-> "success", value |-> value]
FailureType(error) == [type |-> "failure", error |-> error]

\* `o instanceof C`, C named by the tag of its class.
InstanceOf(o, class) == o.type = class

\* new LoadableViewState(inner)
LoadableViewState(inner, ref) == [ref |-> ref, loadableViewState |-> inner]

Loadable_initial(ref) == LoadableViewState(InitialType, ref)
Loadable_loading(ref) == LoadableViewState(LoadingType, ref)
Loadable_success(value, ref) == LoadableViewState(SuccessType(value), ref)
Loadable_failure(error, ref) == LoadableViewState(FailureType(error), ref)

Loadable_isInitial(this) == InstanceOf(this.loadableViewState, "initial")
Loadable_isLoading(this) == InstanceOf(this.loadableViewState, "loading")
Loadable_isSuccess(this) == InstanceOf(this.loadableViewState, "success")
Loadable_isFailure(this) == InstanceOf(this.loadableViewState, "failure")

\* getOrNull reading the value property whatever the variant.
Loadable_getOrNull_unguarded(this) ==
    Return(Get(this.loadableViewState, "value"), <<>>)

Loadable_getOrNull(this) ==
    IF Loadable_isSuccess(this)
    THEN Return(Get(this.loadableViewState, "value"), <<>>)
    ELSE Return(Null, <<>>)

\* getOrThrow with the fallback of getOrNull: returns null where it must throw.
Loadable_getOrThrow_returnsNull(this) ==
    IF Loadable_isSuccess(this)
    THEN Return(Get(this.loadableViewState, "value"), <<>>)
    ELSE Return(Null, <<>>)

Loadable_getOrThrow(this) ==
    IF Loadable_isSuccess(this)
    THEN Return(Get(this.loadableViewState, "value"), <<>>)
    ELSE Throw(Get(this.loadableViewState, "error"), <<>>)

\* map with the Initial and Loading results exchanged.
Loadable_map_swapsInitialLoading(this, transform, ref) ==
    LET value == Loadable_getOrNull(this).outcome.val IN
    IF LooseNotNull(value)
    THEN (IF Raises(transform)
          THEN Throw(Raised(transform), <<Invocation(transform, <<value>>)>>)
          ELSE Return(Loadable_success(Call(transform, <<value>>), ref),
                      <<Invocation(transform, <<value>>)>>))
    ELSE IF Loadable_isInitial(this) THEN Return(Loadable_loading(ref), <<>>)
    ELSE IF Loadable_isLoading(this) THEN Return(Loadable_initial(ref), <<>>)
    ELSE Return(Loadable_failure(Get(this.loadableViewState, "error"), ref), <<>>)

\* map returning `this` when there is nothing to transform.
Loadable_map_returnsThis(this, transform, ref) ==
    LET value == Loadable_getOrNull(this).outcome.val IN
    IF LooseNotNull(value)
    THEN (IF Raises(transform)
          THEN Throw(Raised(transform), <<Invocation(transform, <<value>>)>>)
          ELSE Return(Loadable_success(Call(transform, <<value>>), ref),
                      <<Invocation(transform, <<value>>)>>))
    ELSE Return(this, <<>>)

\* ref is the identity of the instance map creates.
Loadable_map(this, transform, ref) ==
    LET value == Loadable_getOrNull(this).outcome.val IN
    IF LooseNotNull(value)
    THEN (IF Raises(transform)
          THEN Throw(Raised(transform), <<Invocation(transform, <<value>>)>>)
          ELSE Return(Loadable_success(Call(transform, <<value>>), ref),
                      <<Invocation(transform, <<value>>)>>))
    ELSE IF Loadable_isInitial(this) THEN Return(Loadable_initial(ref), <<>>)
    ELSE IF Loadable_isLoading(this) THEN Return(Loadable_loading(ref), <<>>)
    ELSE Return(Loadable_failure(Get(this.loadableViewState, "error"), ref), <<>>)

\* fold whose Initial branch calls onLoading.
Loadable_fold_initialCallsOnLoading(this, handlers, onFailure, onInitial, onLoading) ==
    LET Positional(onS, onF, onI, onL) ==
            IF Loadable_isSuccess(this)
            THEN LET argv == <<Get(this.loadableViewState, "value")>> IN
                 ReturnCall(onS, argv)
            ELSE IF Loadable_isInitial(this)
            THEN ReturnCall(onL, <<>>)
            ELSE IF Loadable_isLoading(this)
            THEN ReturnCall(onL, <<>>)
            ELSE LET argv == <<Get(this.loadableViewState, "error")>> IN
                 ReturnCall(onF, argv)
    IN IF Typeof(handlers) = "object"
       THEN Positional(handlers.onSuccess, handlers.onFailure,
                       handlers.onInitial, handlers.onLoading)
       ELSE Positional(handlers, onFailure, onInitial, onLoading)

\* fold whose object form forwards onInitial and onLoading in exchanged
\* positions.
Loadable_fold_objectFormMisorders(this, handlers, onFailure, onInitial, onLoading) ==
    LET Positional(onS, onF, onI, onL) ==
            IF Loadable_isSuccess(this)
            THEN LET argv == <<Get(this.loadableViewState, "value")>> IN
                 ReturnCall(onS, argv)
            ELSE IF Loadable_isInitial(this)
            THEN ReturnCall(onI, <<>>)
            ELSE IF Loadable_isLoading(this)
            THEN ReturnCall(onL, <<>>)
            ELSE LET argv == <<Get(this.loadableViewState, "error")>> IN
                 ReturnCall(onF, argv)
    IN IF Typeof(handlers) = "object"
       THEN Positional(handlers.onSuccess, handlers.onFailure,
                       handlers.onLoading, handlers.onInitial)
       ELSE Positional(handlers, onFailure, onInitial, onLoading)

\* fold whose Loading branch calls onFailure with the absent error.
Loadable_fold_loadingCallsOnFailure(this, handlers, onFailure, onInitial, onLoading) ==
    LET Positional(onS, onF, onI, onL) ==
            IF Loadable_isSuccess(this)
            THEN LET argv == <<Get(this.loadableViewState, "value")>> IN
                 ReturnCall(onS, argv)
            ELSE IF Loadable_isInitial(this)
            THEN ReturnCall(onI, <<>>)
            ELSE LET argv == <<Get(this.loadableViewState, "error")>> IN
                 ReturnCall(onF, argv)
    IN IF Typeof(handlers) = "object"
       THEN Positional(handlers.onSuccess, handlers.onFailure,
                       handlers.onInitial, handlers.onLoading)
       ELSE Positional(handlers, onFailure, onInitial, onLoading)

\* The implementation signature of fold: `handlers` is the object of named
\* handlers (the other three parameters are then undefined) or the onSuccess
\* function of the positional form.
RECURSIVE Loadable_fold(_, _, _, _, _)
Loadable_fold(this, handlers, onFailure, onInitial, onLoading) ==
    IF Typeof(handlers) = "object"
    THEN Loadable_fold(this, handlers.onSuccess, handlers.onFailure,
                       handlers.onInitial, handlers.onLoading)
    ELSE IF Loadable_isSuccess(this)
    THEN LET argv == <<Get(this.loadableViewState, "value")>> IN
         ReturnCall(handlers, argv)
    ELSE IF Loadable_isInitial(this)
    THEN ReturnCall(onInitial, <<>>)
    ELSE IF Loadable_isLoading(this)
    THEN ReturnCall(onLoading, <<>>)
    ELSE LET argv == <<Get(this.loadableViewState, "error")>> IN
         ReturnCall(onFailure, argv)

\* getOrDefault written as `value ?? defaultValue`.
Loadable_getOrDefault_coalesces(this, defaultValue) ==
    IF LooseNotNull(Get(this.loadableViewState, "value"))
    THEN Return(Get(this.loadableViewState, "value"), <<>>)
    ELSE Return(defaultValue, <<>>)

Loadable_getOrDefault(this, defaultValue) ==
    IF Loadable_isSuccess(this)
    THEN Return(Get(this.loadableViewState, "value"), <<>>)
    ELSE Return(defaultValue, <<>>)

\* errorOrNull guarded by isSuccess.
Loadable_errorOrNull_testsSuccess(this) ==
    IF Loadable_isSuccess(this)
    THEN Return(Get(this.loadableViewState, "error"), <<>>)
    ELSE Return(Null, <<>>)

\* errorOrNull reading the error property whatever the variant.
Loadable_errorOrNull_unguarded(this) ==
    Return(Get(this.loadableViewState, "error"), <<>>)

Loadable_errorOrNull(this) ==
    IF Loadable_isFailure(this)
    THEN Return(Get(this.loadableViewState, "error"), <<>>)
    ELSE Return(Null, <<>>)

\* onInitial returning a copy of the instance instead of `this`.
Loadable_onInitial_returnsCopy(this, perform) ==
    LET copy == LoadableViewState(this.loadableViewState, FreshRef({this.ref})) IN
    IF Loadable_isInitial(this)
    THEN CallThenReturn(perform, <<>>, copy)
    ELSE Return(copy, <<>>)

Loadable_onInitial(this, perform) ==
    IF Loadable_isInitial(this)
    THEN CallThenReturn(perform, <<>>, this)
    ELSE Return(this, <<>>)

\* onLoading without its guard.
Loadable_onLoading_unguarded(this, perform) ==
    CallThenReturn(perform, <<>>, this)

Loadable_onLoading(this, perform) ==
    IF Loadable_isLoading(this)
    THEN CallThenReturn(perform, <<>>, this)
    ELSE Return(this, <<>>)

\* onSuccess handing the action to a timer instead of calling it.
Loadable_onSuccess_defers(this, perform) ==
    IF Loadable_isSuccess(this)
    THEN [outcome |-> [kind |-> "return", val |-> this], calls |-> <<>>,
          scheduled |-> <<Invocation(perform, <<Get(this.loadableViewState, "value")>>)>>]
    ELSE Return(this, <<>>)

Loadable_onSuccess(this, perform) ==
    IF Loadable_isSuccess(this)
    THEN CallThenReturn(perform, <<Get(this.loadableViewState, "value")>>, this)
    ELSE Return(this, <<>>)

Loadable_onFailure(this, perform) ==
    IF Loadable_isFailure(this)
    THEN CallThenReturn(perform, <<Get(this.loadableViewState, "error")>>, this)
    ELSE Return(this, <<>>)

\* toString rendering a Failure without its error.
Loadable_toString_omitsError(this) ==
    IF Loadable_isInitial(this) THEN Return(Str("Initial"), <<>>)
    ELSE IF Loadable_isSuccess(this)
    THEN Return(Str("Success: " \o JsString(Get(this.loadableViewState, "value"))), <<>>)
    ELSE IF Loadable_isLoading(this) THEN Return(Str("Loading"), <<>>)
    ELSE Return(Str("Failure"), <<>>)

Loadable_toString(this) ==
    IF Loadable_isInitial(this) THEN Return(Str("Initial"), <<>>)
    ELSE IF Loadable_isSuccess(this)
    THEN Return(Str("Success: " \o JsString(Get(this.loadableViewState, "value"))), <<>>)
    ELSE IF Loadable_isLoading(this) THEN Return(Str("Loading"), <<>>)
    ELSE Return(Str("Failure: " \o JsString(Get(this.loadableViewState, "error"))), <<>>)

---------------------------------------------------------------------------
(* EditableViewState *)

Initial(value) == [type |-> "initial", value |-> value]
Loading(current, target) == [type |-> "loading", current |-> current, target |-> target]
Success(old, succeeded) == [type |-> "success", old |-> old, succeeded |-> succeeded]
Failure(current, failed, error) ==
    [type |-> "failure", error |-> error, current |-> current, failed |-> failed]

\* new EditableViewState(inner)
EditableViewState(inner, ref) == [ref |-> ref, editableViewState |-> inner]

Editable_initial(value, ref) == EditableViewState(Initial(value), ref)
Editable_loading(current, target, ref) == EditableViewState(Loading(current, target), ref)
Editable_success(old, succeeded, ref) == EditableViewState(Success(old, succeeded), ref)
Editable_failure(current, failed, error, ref) ==
    EditableViewState(Failure(current, failed, error), ref)

\* The getters and the private static type guards test the same thing.
Editable_isInitial(this) == InstanceOf(this.editableViewState, "initial")
\* isLoading testing for the class of isInitial.
Editable_isLoading_testsInitial(this) == InstanceOf(this.editableViewState, "initial")

Editable_isLoading(this) == InstanceOf(this.editableViewState, "loading")
Editable_isSuccess(this) == InstanceOf(this.editableViewState, "success")
Editable_isFailure(this) == InstanceOf(this.editableViewState, "failure")

UnreachableState == [k |-> "error", n |-> 0]  \* new Error('unreachable state')

\* fold that passes the Success payload as (succeeded, old).
Editable_fold_swapsSuccessPayload(this, handlers, onFailure, onInitial, onLoading) ==
    LET s == this.editableViewState
        Positional(onS, onF, onI, onL) ==
            IF Editable_isSuccess(this)
            THEN LET argv == <<s.succeeded, s.old>> IN
                 ReturnCall(onS, argv)
            ELSE IF Editable_isInitial(this)
            THEN LET argv == <<s.value>> IN
                 ReturnCall(onI, argv)
            ELSE IF Editable_isLoading(this)
            THEN LET argv == <<s.current, s.target>> IN
                 ReturnCall(onL, argv)
            ELSE IF Editable_isFailure(this)
            THEN LET argv == <<s.current, s.failed, s.error>> IN
                 ReturnCall(onF, argv)
            ELSE Throw(UnreachableState, <<>>)
    IN IF Typeof(handlers) = "object"
       THEN Positional(handlers.onSuccess, handlers.onFailure,
                       handlers.onInitial, handlers.onLoading)
       ELSE Positional(handlers, onFailure, onInitial, onLoading)

RECURSIVE Editable_fold(_, _, _, _, _)
Editable_fold(this, handlers, onFailure, onInitial, onLoading) ==
    LET s == this.editableViewState IN
    IF Typeof(handlers) = "object"
    THEN Editable_fold(this, handlers.onSuccess, handlers.onFailure,
                       handlers.onInitial, handlers.onLoading)
    ELSE IF Editable_isSuccess(this)
    THEN LET argv == <<s.old, s.succeeded>> IN
         ReturnCall(handlers, argv)
    ELSE IF Editable_isInitial(this)
    THEN LET argv == <<s.value>> IN
         ReturnCall(onInitial, argv)
    ELSE IF Editable_isLoading(this)
    THEN LET argv == <<s.current, s.target>> IN
         ReturnCall(onLoading, argv)
    ELSE IF Editable_isFailure(this)
    THEN LET argv == <<s.current, s.failed, s.error>> IN
         ReturnCall(onFailure, argv)
    ELSE Throw(UnreachableState, <<>>)

\* getRelevant showing the value that failed.
Editable_getRelevant_failureGivesFailed(this) ==
    LET s == this.editableViewState IN
    IF Editable_isInitial(this) THEN Return(s.value, <<>>)
    ELSE IF Editable_isLoading(this) THEN Return(s.current, <<>>)
    ELSE IF Editable_isSuccess(this) THEN Return(s.succeeded, <<>>)
    ELSE IF Editable_isFailure(this) THEN Return(s.failed, <<>>)
    ELSE Throw(UnreachableState, <<>>)

\* getRelevant showing the target while the edit is in flight.
Editable_getRelevant_loadingGivesTarget(this) ==
    LET s == this.editableViewState IN
    IF Editable_isInitial(this) THEN Return(s.value, <<>>)
    ELSE IF Editable_isLoading(this) THEN Return(s.target, <<>>)
    ELSE IF Editable_isSuccess(this) THEN Return(s.succeeded, <<>>)
    ELSE IF Editable_isFailure(this) THEN Return(s.current, <<>>)
    ELSE Throw(UnreachableState, <<>>)

Editable_getRelevant(this) ==
    LET s == this.editableViewState IN
    IF Editable_isInitial(this) THEN Return(s.value, <<>>)
    ELSE IF Editable_isLoading(this) THEN Return(s.current, <<>>)
    ELSE IF Editable_isSuccess(this) THEN Return(s.succeeded, <<>>)
    ELSE IF Editable_isFailure(this) THEN Return(s.current, <<>>)
    ELSE Throw(UnreachableState, <<>>)

Editable_errorOrNull(this) ==
    IF Editable_isFailure(this)
    THEN Return(this.editableViewState.error, <<>>)
    ELSE Return(Null, <<>>)

Editable_onInitial(this, perform) ==
    LET s == this.editableViewState IN
    IF Editable_isInitial(this)
    THEN CallThenReturn(perform, <<s.value>>, this)
    ELSE Return(this, <<>>)

\* onLoading without its guard.
Editable_onLoading_unguarded(this, perform) ==
    LET s == this.editableViewState IN
    CallThenReturn(perform, <<Get(s, "current"), Get(s, "target")>>, this)

Editable_onLoading(this, perform) ==
    LET s == this.editableViewState IN
    IF Editable_isLoading(this)
    THEN CallThenReturn(perform, <<s.current, s.target>>, this)
    ELSE Return(this, <<>>)

Editable_onSuccess(this, perform) ==
    LET s == this.editableViewState IN
    IF Editable_isSuccess(this)
    THEN CallThenReturn(perform, <<s.old, s.succeeded>>, this)
    ELSE Return(this, <<>>)

\* onFailure that catches what its action raises.
Editable_onFailure_swallows(this, perform) ==
    LET s == this.editableViewState IN
    IF Editable_isFailure(this)
    THEN Return(this, <<Invocation(perform, <<s.current, s.failed, s.error>>)>>)
    ELSE Return(this, <<>>)

Editable_onFailure(this, perform) ==
    LET s == this.editableViewState IN
    IF Editable_isFailure(this)
    THEN CallThenReturn(perform, <<s.current, s.failed, s.error>>, this)
    ELSE Return(this, <<>>)

\* toString rendering a Failure with its error appended.
Editable_toString_showsError(this) ==
    LET s == this.editableViewState IN
    IF Editable_isInitial(this)
    THEN Return(Str("Initial: " \o JsString(s.value)), <<>>)
    ELSE IF Editable_isLoading(this)
    THEN Return(Str("Loading: " \o JsString(s.current) \o " -> " \o JsString(s.target)), <<>>)
    ELSE IF Editable_isSuccess(this)
    THEN Return(Str("Success: " \o JsString(s.old) \o " -> " \o JsString(s.succeeded)), <<>>)
    ELSE IF Editable_isFailure(this)
    THEN Return(Str("Failure: " \o JsString(s.current) \o " -> " \o JsString(s.failed)
                    \o " (" \o JsString(s.error) \o ")"), <<>>)
    ELSE Throw(UnreachableState, <<>>)

\* toString without the Failure branch.
Editable_toString_noFailureBranch(this) ==
    LET s == this.editableViewState IN
    IF Editable_isInitial(this)
    THEN Return(Str("Initial: " \o JsString(s.value)), <<>>)
    ELSE IF Editable_isLoading(this)
    THEN Return(Str("Loading: " \o JsString(s.current) \o " -> " \o JsString(s.target)), <<>>)
    ELSE IF Editable_isSuccess(this)
    THEN Return(Str("Success: " \o JsString(s.old) \o " -> " \o JsString(s.succeeded)), <<>>)
    ELSE Throw(UnreachableState, <<>>)

Editable_toString(this) ==
    LET s == this.editableViewState IN
    IF Editable_isInitial(this)
    THEN Return(Str("Initial: " \o JsString(s.value)), <<>>)
    ELSE IF Editable_isLoading(this)
    THEN Return(Str("Loading: " \o JsString(s.current) \o " -> " \o JsString(s.target)), <<>>)
    ELSE IF Editable_isSuccess(this)
    THEN Return(Str("Success: " \o JsString(s.old) \o " -> " \o JsString(s.succeeded)), <<>>)
    ELSE IF Editable_isFailure(this)
    THEN Return(Str("Failure: " \o JsString(s.current) \o " -> " \o JsString(s.failed)), <<>>)
    ELSE Throw(UnreachableState, <<>>)

---------------------------------------------------------------------------
(* Chains of hooks: s.onInitial(a).onLoading(b).onSuccess(c).onFailure(d), *)
(* the four hooks in some order.  A chain is a sequence of                 *)
(* [hook, perform]; each hook is called on what the one before returned.   *)

LoadableHook(this, hook, perform) ==
    CASE hook = "onInitial" -> Loadable_onInitial(this, perform)
      [] hook = "onLoading" -> Loadable_onLoading(this, perform)
      [] hook = "onSuccess" -> Loadable_onSuccess(this, perform)
      [] hook = "onFailure" -> Loadable_onFailure(this, perform)

EditableHook(this, hook, perform) ==
    CASE hook = "onInitial" -> Editable_onInitial(this, perform)
      [] hook = "onLoading" -> Editable_onLoading(this, perform)
      [] hook = "onSuccess" -> Editable_onSuccess(this, perform)
      [] hook = "onFailure" -> Editable_onFailure(this, perform)

\* The chain from its i-th hook on, cs being the invocations made so far.
RECURSIVE LoadableChain(_, _, _, _)
LoadableChain(this, chain, i, cs) ==
    IF i > Len(chain) THEN Return(this, cs)
    ELSE LET r == LoadableHook(this, chain[i].hook, chain[i].perform) IN
         IF r.outcome.kind = "throw"
         THEN Throw(r.outcome.val, cs \o r.calls)
         ELSE LoadableChain(r.outcome.val, chain, i + 1, cs \o r.calls)

RECURSIVE EditableChain(_, _, _, _)
EditableChain(this, chain, i, cs) ==
    IF i > Len(chain) THEN Return(this, cs)
    ELSE LET r == EditableHook(this, chain[i].hook, chain[i].perform) IN
         IF r.outcome.kind = "throw"
         THEN Throw(r.outcome.val, cs \o r.calls)
         ELSE EditableChain(r.outcome.val, chain, i + 1, cs \o r.calls)

---------------------------------------------------------------------------
(* The client *)

HandlerNames == {"onSuccess", "onFailure", "onInitial", "onLoading"}

\* Four distinct functions, one per handler name: the handlers taken in
\* order from the k-th on, so that every function is passed in every position.
HandlerAssignments ==
    {[name \in HandlerNames |->
        LET at == CASE name = "onSuccess" -> 0 [] name = "onFailure" -> 1
                    [] name = "onInitial" -> 2 [] OTHER -> 3
        IN Fn("handler", ((k + at) % NumHandlers) + 1)] : k \in 1..NumHandlers}

\* The object literal {onSuccess, onFailure, onInitial, onLoading}.
HandlersObject(h) ==
    [t |-> "object", onFailure |-> h["onFailure"], onInitial |-> h["onInitial"],
     onLoading |-> h["onLoading"], onSuccess |-> h["onSuccess"]]

\* The handlers that make fold compute what an accessor returns:
\* getOrNull is fold(v => v, e => null, () => null, () => null), errorOrNull is
\* fold(v => null, e => e, () => null, () => null).
GetOrNullHandlers ==
    [name \in HandlerNames |-> IF name = "onSuccess" THEN Argument(1) ELSE ConstantNull]
ErrorOrNullHandlers ==
    [name \in HandlerNames |-> IF name = "onFailure" THEN Argument(1) ELSE ConstantNull]

\* getRelevant is fold((old, succeeded) => succeeded,
\* (current, failed, error) => current, value => value,
\* (current, target) => current); errorOrNull is
\* fold(() => null, (current, failed, error) => error, () => null, () => null).
GetRelevantHandlers ==
    [name \in HandlerNames |-> IF name = "onSuccess" THEN Argument(2) ELSE Argument(1)]
EditableErrorOrNullHandlers ==
    [name \in HandlerNames |-> IF name = "onFailure" THEN Argument(3) ELSE ConstantNull]

\* Four handlers that raise, each its own error.
RaisingHandlers ==
    [name \in HandlerNames |->
        CASE name = "onSuccess" -> Raiser(1) [] name = "onFailure" -> Raiser(2)
          [] name = "onInitial" -> Raiser(3) [] OTHER -> Raiser(4)]

LoadableFoldHandlers ==
    HandlerAssignments \cup {RaisingHandlers, GetOrNullHandlers, ErrorOrNullHandlers}
EditableFoldHandlers ==
    HandlerAssignments \cup {RaisingHandlers, GetRelevantHandlers, EditableErrorOrNullHandlers}

\* The actions a client passes to the hooks: one that returns, one that raises.
Performs == {Fn("handler", 1), Raiser(1)}

\* The four hooks.
HookNames == {"onInitial", "onLoading", "onSuccess", "onFailure"}

\* The action the client gives each hook of a chain: four distinct functions.
ChainAction(hook) ==
    CASE hook = "onInitial" -> Fn("handler", 1)
      [] hook = "onLoading" -> Fn("handler", 2)
      [] hook = "onSuccess" -> Fn("handler", 3)
      [] hook = "onFailure" -> Fn("handler", 4)

\* The chains of the four hooks, in every order.
HookChains ==
    {[i \in 1..4 |-> [perform |-> ChainAction(order[i]), hook |-> order[i]]] :
        order \in {o \in [1..4 -> HookNames] : \A i, j \in 1..4 : i # j => o[i] # o[j]}}

NoOutcome == [kind |-> "return", val |-> Undefined]

Init ==
    /\ lvs = Loadable_initial(1)
    /\ evs \in {Editable_initial(v, 1) : v \in EditableValues}
    /\ op = "none"
    /\ recv = NoInstance
    /\ args = <<>>
    /\ outcome = NoOutcome
    /\ calls = <<>>
    /\ scheduled = <<>>
    /\ built = [loadable |-> lvs, editable |-> evs]

\* A static factory of LoadableViewState returned `made`.
LoadableMade(name, argv, made) ==
    /\ lvs' = made
    /\ op' = name
    /\ recv' = NoInstance
    /\ args' = argv
    /\ outcome' = Return(made, <<>>).outcome
    /\ calls' = <<>>
    /\ scheduled' = <<>>
    /\ built' = [built EXCEPT !.loadable = made]
    /\ UNCHANGED evs

\* A static factory of EditableViewState returned `made`.
EditableMade(name, argv, made) ==
    /\ evs' = made
    /\ op' = name
    /\ recv' = NoInstance
    /\ args' = argv
    /\ outcome' = Return(made, <<>>).outcome
    /\ calls' = <<>>
    /\ scheduled' = <<>>
    /\ built' = [built EXCEPT !.editable = made]
    /\ UNCHANGED lvs

\* A method that resets its receiver to the Initial variant once it has run.
LoadableCalled_resetsReceiver(name, argv, r) ==
    /\ op' = name
    /\ recv' = lvs
    /\ args' = argv
    /\ outcome' = r.outcome
    /\ calls' = r.calls
    /\ scheduled' = r.scheduled
    /\ lvs' = LoadableViewState(InitialType, lvs.ref)
    /\ UNCHANGED <<evs, built>>

\* A method of the held LoadableViewState ended with result r.
LoadableCalled(name, argv, r) ==
    /\ op' = name
    /\ recv' = lvs
    /\ args' = argv
    /\ outcome' = r.outcome
    /\ calls' = r.calls
    /\ scheduled' = r.scheduled
    /\ UNCHANGED <<lvs, evs, built>>

\* A method of the held EditableViewState ended with result r.
EditableCalled(name, argv, r) ==
    /\ op' = name
    /\ recv' = evs
    /\ args' = argv
    /\ outcome' = r.outcome
    /\ calls' = r.calls
    /\ scheduled' = r.scheduled
    /\ UNCHANGED <<lvs, evs, built>>

LInitial ==
    LoadableMade("Loadable.initial", <<>>, Loadable_initial(FreshRef({})))

LLoading ==
    LoadableMade("Loadable.loading", <<>>, Loadable_loading(FreshRef({})))

LSuccess ==
    \E v \in Values :
        LoadableMade("Loadable.success", <<v>>, Loadable_success(v, FreshRef({})))

LFailure ==
    \E e \in Errors :
        LoadableMade("Loadable.failure", <<e>>, Loadable_failure(e, FreshRef({})))

LGetOrThrow ==
    LoadableCalled("Loadable.getOrThrow", <<>>, Loadable_getOrThrow(lvs))

\* The client keeps the mapped instance: lvs = lvs.map(transform).
LMap ==
    \E transform \in Transforms \cup {Raiser(1)} :
        LET r == Loadable_map(lvs, transform, FreshRef({lvs.ref})) IN
        /\ op' = "Loadable.map"
        /\ recv' = lvs
        /\ args' = <<transform>>
        /\ outcome' = r.outcome
        /\ calls' = r.calls
        /\ scheduled' = r.scheduled
        /\ lvs' = IF r.outcome.kind = "return" THEN r.outcome.val ELSE lvs
        /\ built' = [built EXCEPT !.loadable = lvs']
        /\ UNCHANGED evs

LFoldPositional ==
    \E h \in LoadableFoldHandlers :
        LET argv == <<h["onSuccess"], h["onFailure"], h["onInitial"], h["onLoading"]>> IN
        LoadableCalled("Loadable.fold", argv,
                       Loadable_fold(lvs, argv[1], argv[2], argv[3], argv[4]))

LFoldObject ==
    \E h \in HandlerAssignments \cup {RaisingHandlers} :
        LoadableCalled("Loadable.fold{}", <<HandlersObject(h)>>,
                       Loadable_fold(lvs, HandlersObject(h), Undefined, Undefined, Undefined))

LIsInitial ==
    LoadableCalled("Loadable.isInitial", <<>>, Return(Bool(Loadable_isInitial(lvs)), <<>>))

LIsLoading ==
    LoadableCalled("Loadable.isLoading", <<>>, Return(Bool(Loadable_isLoading(lvs)), <<>>))

LIsSuccess ==
    LoadableCalled("Loadable.isSuccess", <<>>, Return(Bool(Loadable_isSuccess(lvs)), <<>>))

LIsFailure ==
    LoadableCalled("Loadable.isFailure", <<>>, Return(Bool(Loadable_isFailure(lvs)), <<>>))

LGetOrNull ==
    LoadableCalled("Loadable.getOrNull", <<>>, Loadable_getOrNull(lvs))

LGetOrDefault ==
    \E d \in Values :
        LoadableCalled("Loadable.getOrDefault", <<d>>, Loadable_getOrDefault(lvs, d))

LErrorOrNull ==
    LoadableCalled("Loadable.errorOrNull", <<>>, Loadable_errorOrNull(lvs))

LOnInitial ==
    \E perform \in Performs :
        LoadableCalled("Loadable.onInitial", <<perform>>, Loadable_onInitial(lvs, perform))

LOnLoading ==
    \E perform \in Performs :
        LoadableCalled("Loadable.onLoading", <<perform>>, Loadable_onLoading(lvs, perform))

LOnSuccess ==
    \E perform \in Performs :
        LoadableCalled("Loadable.onSuccess", <<perform>>, Loadable_onSuccess(lvs, perform))

LOnFailure ==
    \E perform \in Performs :
        LoadableCalled("Loadable.onFailure", <<perform>>, Loadable_onFailure(lvs, perform))

LToString ==
    LoadableCalled("Loadable.toString", <<>>, Loadable_toString(lvs))

LHookChain ==
    \E chain \in HookChains :
        LoadableCalled("Loadable.chain", chain, LoadableChain(lvs, chain, 1, <<>>))

EInitial ==
    \E v \in EditableValues :
        EditableMade("Editable.initial", <<v>>, Editable_initial(v, FreshRef({})))

ELoading ==
    \E c, t \in EditableValues :
        EditableMade("Editable.loading", <<c, t>>, Editable_loading(c, t, FreshRef({})))

ESuccess ==
    \E o, s \in EditableValues :
        EditableMade("Editable.success", <<o, s>>, Editable_success(o, s, FreshRef({})))

EFailure ==
    \E c, f \in EditableValues, e \in Errors :
        EditableMade("Editable.failure", <<c, f, e>>,
                     Editable_failure(c, f, e, FreshRef({})))

EFoldPositional ==
    \E h \in EditableFoldHandlers :
        LET argv == <<h["onSuccess"], h["onFailure"], h["onInitial"], h["onLoading"]>> IN
        EditableCalled("Editable.fold", argv,
                       Editable_fold(evs, argv[1], argv[2], argv[3], argv[4]))

EFoldObject ==
    \E h \in HandlerAssignments \cup {RaisingHandlers} :
        EditableCalled("Editable.fold{}", <<HandlersObject(h)>>,
                       Editable_fold(evs, HandlersObject(h), Undefined, Undefined, Undefined))

EIsInitial ==
    EditableCalled("Editable.isInitial", <<>>, Return(Bool(Editable_isInitial(evs)), <<>>))

EIsLoading ==
    EditableCalled("Editable.isLoading", <<>>, Return(Bool(Editable_isLoading(evs)), <<>>))

EIsSuccess ==
    EditableCalled("Editable.isSuccess", <<>>, Return(Bool(Editable_isSuccess(evs)), <<>>))

EIsFailure ==
    EditableCalled("Editable.isFailure", <<>>, Return(Bool(Editable_isFailure(evs)), <<>>))

EGetRelevant ==
    EditableCalled("Editable.getRelevant", <<>>, Editable_getRelevant(evs))

EErrorOrNull ==
    EditableCalled("Editable.errorOrNull", <<>>, Editable_errorOrNull(evs))

EOnInitial ==
    \E perform \in Performs :
        EditableCalled("Editable.onInitial", <<perform>>, Editable_onInitial(evs, perform))

EOnLoading ==
    \E perform \in Performs :
        EditableCalled("Editable.onLoading", <<perform>>, Editable_onLoading(evs, perform))

EOnSuccess ==
    \E perform \in Performs :
        EditableCalled("Editable.onSuccess", <<perform>>, Editable_onSuccess(evs, perform))

EOnFailure ==
    \E perform \in Performs :
        EditableCalled("Editable.onFailure", <<perform>>, Editable_onFailure(evs, perform))

EToString ==
    EditableCalled("Editable.toString", <<>>, Editable_toString(evs))

EHookChain ==
    \E chain \in HookChains :
        EditableCalled("Editable.chain", chain, EditableChain(evs, chain, 1, <<>>))

Next ==
    \/ LInitial
    \/ LLoading
    \/ LSuccess
    \/ LFailure
    \/ LGetOrThrow
    \/ LMap
    \/ LFoldPositional
    \/ LFoldObject
    \/ LIsInitial
    \/ LIsLoading
    \/ LIsSuccess
    \/ LIsFailure
    \/ LGetOrNull
    \/ LGetOrDefault
    \/ LErrorOrNull
    \/ LOnInitial
    \/ LOnLoading
    \/ LOnSuccess
    \/ LOnFailure
    \/ LToString
    \/ EInitial
    \/ ELoading
    \/ ESuccess
    \/ EFailure
    \/ EFoldPositional
    \/ EFoldObject
    \/ EIsInitial
    \/ EIsLoading
    \/ EIsSuccess
    \/ EIsFailure
    \/ EGetRelevant
    \/ EErrorOrNull
    \/ EOnInitial
    \/ EOnLoading
    \/ EOnSuccess
    \/ EOnFailure
    \/ EToString

Spec == Init /\ [][Next]_vars

\* The client that builds instances and runs chains of hooks on them.
NextChains ==
    \/ LInitial
    \/ LLoading
    \/ LSuccess
    \/ LFailure
    \/ LMap
    \/ LHookChain
    \/ EInitial
    \/ ELoading
    \/ ESuccess
    \/ EFailure
    \/ EHookChain

SpecChains == Init /\ [][NextChains]_vars

---------------------------------------------------------------------------
(* Properties of LoadableViewState.map *)

LoadableValue(this) == Get(this.loadableViewState, "value")
LoadableError(this) == Get(this.loadableViewState, "error")

\* A callback invoked by the last call raised.
CallbackRaised == \E j \in 1..Len(calls) : Raises(calls[j].fn)

\* C1: for every Success receiver and every transform f, map(f) returns a
\* Success state whose value is f(value), whatever the value, null included
\* (f being a transform that returns).
C1_MapOfSuccessIsSuccess ==
    (op = "Loadable.map" /\ Loadable_isSuccess(recv) /\ ~Raises(args[1])) =>
        /\ outcome.kind = "return"
        /\ Loadable_isSuccess(lvs)
        /\ LoadableValue(lvs) = Call(args[1], <<LoadableValue(recv)>>)

\* C2: getOrThrow() on an Initial or a Loading instance raises an error value:
\* it does not return, and what it throws is not undefined.
C2_GetOrThrowRaisesInvalidState ==
    (op = "Loadable.getOrThrow" /\ (Loadable_isInitial(recv) \/ Loadable_isLoading(recv))) =>
        /\ outcome.kind = "throw"
        /\ outcome.val.k = "error"

\* C3: after any sequence of factory and map calls, a Failure instance holds an
\* error that was passed to failure() by the client, never a null or absent one,
\* and a Success or Failure instance has its payload field.
C3_FailureHoldsAnError ==
    /\ Loadable_isFailure(lvs) =>
        "error" \in DOMAIN lvs.loadableViewState /\ LoadableError(lvs) \in Errors
    /\ Loadable_isSuccess(lvs) => "value" \in DOMAIN lvs.loadableViewState

---------------------------------------------------------------------------
(* Predicates *)

LoadablePredicates(this) ==
    <<Loadable_isInitial(this), Loadable_isLoading(this),
      Loadable_isSuccess(this), Loadable_isFailure(this)>>

EditablePredicates(this) ==
    <<Editable_isInitial(this), Editable_isLoading(this),
      Editable_isSuccess(this), Editable_isFailure(this)>>

\* <<isInitial, isLoading, isSuccess, isFailure>> with only the named one true.
Only(name) ==
    <<name = "initial", name = "loading", name = "success", name = "failure">>

FactoryNames == {"initial", "loading", "success", "failure"}

\* C4: on the instance a factory of either type returns, the predicate named
\* after that factory is true and the other three are false.
C4_ExactlyOnePredicate ==
    \A name \in FactoryNames :
        /\ op = "Loadable." \o name => LoadablePredicates(lvs) = Only(name)
        /\ op = "Editable." \o name => EditablePredicates(evs) = Only(name)

C4_Witness ==
    /\ op = "Editable.failure"
    /\ outcome.val = evs
    /\ Editable_isFailure(evs)
    /\ Loadable_isLoading(lvs)

\* C5: map on a receiver that is not Success returns a state of the same
\* variant, and for Failure one that carries the receiver's error.
C5_MapKeepsOtherVariants ==
    (op = "Loadable.map" /\ ~Loadable_isSuccess(recv)) =>
        /\ outcome.kind = "return"
        /\ outcome.val = lvs
        /\ LoadablePredicates(lvs) = LoadablePredicates(recv)
        /\ lvs.loadableViewState = recv.loadableViewState

C5_Witness ==
    /\ op = "Loadable.map"
    /\ Loadable_isFailure(recv)
    /\ LoadableError(recv) \in Errors
    /\ Loadable_isFailure(lvs)

\* C6: one call of map invokes transform exactly once, with the value, when
\* the receiver is Success (whatever its value), and not at all otherwise.
C6_MapInvokesTransformOnce ==
    op = "Loadable.map" =>
        IF Loadable_isSuccess(recv)
        THEN calls = <<Invocation(args[1], <<LoadableValue(recv)>>)>>
        ELSE calls = <<>>

\* C7: getOrThrow() returns the stored value of a Success instance and throws
\* the stored error, and no other, of a Failure instance.
C7_GetOrThrow ==
    op = "Loadable.getOrThrow" =>
        /\ Loadable_isSuccess(recv) =>
            outcome = [kind |-> "return", val |-> LoadableValue(recv)]
        /\ Loadable_isFailure(recv) =>
            outcome = [kind |-> "throw", val |-> LoadableError(recv)]

C7_Witness ==
    /\ op = "Loadable.getOrThrow"
    /\ Loadable_isFailure(recv)
    /\ outcome.kind = "throw"
    /\ outcome.val \in Errors

---------------------------------------------------------------------------
(* fold *)

\* The variant of an instance of either type, as its type guards tell it.
LoadableVariant(this) ==
    CASE Loadable_isInitial(this) -> "initial"
      [] Loadable_isLoading(this) -> "loading"
      [] Loadable_isSuccess(this) -> "success"
      [] Loadable_isFailure(this) -> "failure"

EditableVariant(this) ==
    CASE Editable_isInitial(this) -> "initial"
      [] Editable_isLoading(this) -> "loading"
      [] Editable_isSuccess(this) -> "success"
      [] Editable_isFailure(this) -> "failure"

\* Position of each handler in the positional form of fold.
PositionOf(variant) ==
    CASE variant = "success" -> 1
      [] variant = "failure" -> 2
      [] variant = "initial" -> 3
      [] variant = "loading" -> 4

\* The arguments the documentation gives the handler of each variant.
LoadablePayload(this) ==
    CASE Loadable_isSuccess(this) -> <<LoadableValue(this)>>
      [] Loadable_isFailure(this) -> <<LoadableError(this)>>
      [] OTHER -> <<>>

EditablePayload(this) ==
    LET s == this.editableViewState IN
    CASE Editable_isSuccess(this) -> <<s.old, s.succeeded>>
      [] Editable_isFailure(this) -> <<s.current, s.failed, s.error>>
      [] Editable_isInitial(this) -> <<s.value>>
      [] Editable_isLoading(this) -> <<s.current, s.target>>

\* The handlers other than h among the four passed took no call.
OthersNotInvoked(h, passed) ==
    \A i \in 1..4 : passed[i] # h =>
        \A j \in 1..Len(calls) : calls[j].fn # passed[i]

\* C8: one call of LoadableViewState.fold with four handlers invokes exactly
\* one handler, once: the one of the active variant, with the value for
\* onSuccess, the error for onFailure and no argument for onInitial and
\* onLoading; the other three are not invoked and fold returns that handler's
\* result.
C8_LoadableFoldInvokesOneHandler ==
    op = "Loadable.fold" =>
        LET h == args[PositionOf(LoadableVariant(recv))]
            argv == LoadablePayload(recv)
        IN /\ calls = <<Invocation(h, argv)>>
           /\ OthersNotInvoked(h, args)
           /\ ~Raises(h) => outcome = [kind |-> "return", val |-> Call(h, argv)]

C8_Witness ==
    /\ op = "Loadable.fold"
    /\ Loadable_isFailure(recv)
    /\ Len(calls) = 1
    /\ calls[1].fn = args[2]
    /\ calls[1].argv[1] \in Errors

\* C9: one call of EditableViewState.fold invokes exactly one handler, once:
\* the one of the active variant, with that variant's payload in the order
\* onSuccess(old, succeeded), onFailure(current, failed, error),
\* onInitial(value), onLoading(current, target); the other three are not
\* invoked and fold returns the invoked handler's result.
C9_EditableFoldInvokesOneHandler ==
    op = "Editable.fold" =>
        LET h == args[PositionOf(EditableVariant(recv))]
            argv == EditablePayload(recv)
        IN /\ calls = <<Invocation(h, argv)>>
           /\ OthersNotInvoked(h, args)
           /\ ~Raises(h) => outcome = [kind |-> "return", val |-> Call(h, argv)]

C9_Witness ==
    /\ op = "Editable.fold"
    /\ Editable_isSuccess(recv)
    /\ recv.editableViewState.old # recv.editableViewState.succeeded
    /\ calls = <<Invocation(args[1],
                            <<recv.editableViewState.old, recv.editableViewState.succeeded>>)>>

\* C10: for both types and every instance, fold called with the object
\* {onSuccess, onFailure, onInitial, onLoading} invokes the same single handler,
\* once, with the same arguments, and returns the same result, as fold called
\* with the same four handlers as positional arguments.
C10_FoldFormsAgree ==
    /\ op = "Loadable.fold{}" =>
        LET h == args[1]
            positional == Loadable_fold(recv, h.onSuccess, h.onFailure,
                                        h.onInitial, h.onLoading)
        IN /\ Len(calls) = 1
           /\ calls = positional.calls
           /\ outcome = positional.outcome
    /\ op = "Editable.fold{}" =>
        LET h == args[1]
            positional == Editable_fold(recv, h.onSuccess, h.onFailure,
                                        h.onInitial, h.onLoading)
        IN /\ Len(calls) = 1
           /\ calls = positional.calls
           /\ outcome = positional.outcome

C10_Witness ==
    /\ op = "Editable.fold{}"
    /\ Editable_isLoading(recv)
    /\ Len(calls) = 1
    /\ calls[1].fn = args[1].onLoading
    /\ outcome.kind = "return"

---------------------------------------------------------------------------
(* Hooks and accessors *)

HookName(variant) ==
    CASE variant = "initial" -> "onInitial"
      [] variant = "loading" -> "onLoading"
      [] variant = "success" -> "onSuccess"
      [] variant = "failure" -> "onFailure"

LoadableHookOps == {"Loadable." \o HookName(v) : v \in FactoryNames}
EditableHookOps == {"Editable." \o HookName(v) : v \in FactoryNames}

\* C11: one call of a hook of either type invokes the supplied action exactly
\* once, with the variant's payload, if the instance is of the hook's variant,
\* and does not invoke it if the instance is of another variant.
C11_HookRunsIffVariantMatches ==
    \A v \in FactoryNames :
        /\ op = "Loadable." \o HookName(v) =>
            calls = IF LoadableVariant(recv) = v
                    THEN <<Invocation(args[1], LoadablePayload(recv))>>
                    ELSE <<>>
        /\ op = "Editable." \o HookName(v) =>
            calls = IF EditableVariant(recv) = v
                    THEN <<Invocation(args[1], EditablePayload(recv))>>
                    ELSE <<>>

C11_Witness ==
    /\ op = "Editable.onLoading"
    /\ Editable_isLoading(recv)
    /\ recv.editableViewState.current # recv.editableViewState.target
    /\ Len(calls) = 1
    /\ calls[1].argv = <<recv.editableViewState.current, recv.editableViewState.target>>

\* C12: every hook call of either type returns the very instance it was called
\* on, whether or not the action ran (an action that raises apart), and the
\* instance has the variant and the payload it had before the call.
C12_HookReturnsThis ==
    /\ op \in LoadableHookOps =>
        /\ ~CallbackRaised => outcome = [kind |-> "return", val |-> recv]
        /\ lvs = recv
    /\ op \in EditableHookOps =>
        /\ ~CallbackRaised => outcome = [kind |-> "return", val |-> recv]
        /\ evs = recv

C12_Witness ==
    /\ op = "Loadable.onInitial"
    /\ Loadable_isInitial(recv)
    /\ Len(calls) = 1
    /\ outcome.kind = "return"
    /\ outcome.val.ref = recv.ref

\* C13: getRelevant() returns value for Initial, current (not target) for
\* Loading, succeeded (not old) for Success and current (not failed) for
\* Failure.
C13_GetRelevant ==
    op = "Editable.getRelevant" =>
        LET s == recv.editableViewState IN
        outcome = [kind |-> "return",
                   val |-> CASE EditableVariant(recv) = "initial" -> s.value
                             [] EditableVariant(recv) = "loading" -> s.current
                             [] EditableVariant(recv) = "success" -> s.succeeded
                             [] EditableVariant(recv) = "failure" -> s.current]

C13_Witness ==
    /\ op = "Editable.getRelevant"
    /\ Editable_isLoading(recv)
    /\ recv.editableViewState.current # recv.editableViewState.target
    /\ outcome.val = recv.editableViewState.current

\* C14: getOrNull() returns the stored value of a Success instance and null for
\* Initial, Loading and Failure; it never throws.
C14_GetOrNull ==
    op = "Loadable.getOrNull" =>
        outcome = [kind |-> "return",
                   val |-> IF Loadable_isSuccess(recv) THEN LoadableValue(recv) ELSE Null]

C14_Witness ==
    /\ op = "Loadable.getOrNull"
    /\ Loadable_isFailure(recv)
    /\ outcome = [kind |-> "return", val |-> Null]

\* C15: getOrDefault(d) returns the stored value of a Success instance, a null
\* value included and whatever d is, and d for Initial, Loading and Failure; it
\* never throws.
C15_GetOrDefault ==
    op = "Loadable.getOrDefault" =>
        outcome = [kind |-> "return",
                   val |-> IF Loadable_isSuccess(recv) THEN LoadableValue(recv) ELSE args[1]]

C15_Witness ==
    /\ op = "Loadable.getOrDefault"
    /\ Loadable_isSuccess(recv)
    /\ LoadableValue(recv) = Null
    /\ args[1] \in {V(i) : i \in 1..NumValues}
    /\ outcome.val = Null

\* C16: errorOrNull() of either type returns the error the Failure instance was
\* built with, and null for Initial, Loading and Success.
C16_ErrorOrNull ==
    /\ op = "Loadable.errorOrNull" =>
        outcome = [kind |-> "return",
                   val |-> IF Loadable_isFailure(recv) THEN LoadableError(recv) ELSE Null]
    /\ op = "Editable.errorOrNull" =>
        outcome = [kind |-> "return",
                   val |-> IF Editable_isFailure(recv)
                           THEN recv.editableViewState.error ELSE Null]

C16_Witness ==
    /\ op = "Loadable.errorOrNull"
    /\ Loadable_isFailure(recv)
    /\ outcome.val \in Errors
    /\ outcome.val = LoadableError(recv)

---------------------------------------------------------------------------
(* Immutability, totality, synchrony *)

LoadableFactoryOps == {"Loadable." \o name : name \in FactoryNames}
EditableFactoryOps == {"Editable." \o name : name \in FactoryNames}

PredicateNames == {"isInitial", "isLoading", "isSuccess", "isFailure"}

\* The methods of each class, by the name the client records for them.
LoadableMethodOps ==
    {"Loadable." \o name : name \in PredicateNames}
        \cup LoadableHookOps
        \cup {"Loadable.getOrNull", "Loadable.getOrDefault", "Loadable.getOrThrow",
              "Loadable.errorOrNull", "Loadable.map", "Loadable.fold", "Loadable.fold{}",
              "Loadable.toString"}

EditableMethodOps ==
    {"Editable." \o name : name \in PredicateNames}
        \cup EditableHookOps
        \cup {"Editable.getRelevant", "Editable.errorOrNull", "Editable.fold",
              "Editable.fold{}", "Editable.toString"}

\* C17: after any sequence of operations, getOrThrow raising included, the held
\* instance of each type has the variant and the payload its constructor gave
\* it; a method other than map leaves the client with the receiver as it was,
\* and map returns an instance that is not the receiver.
C17_InstancesAreImmutable ==
    /\ lvs = built.loadable
    /\ evs = built.editable
    /\ op \in LoadableMethodOps \ {"Loadable.map"} => lvs = recv
    /\ op \in EditableMethodOps => evs = recv
    /\ (op = "Loadable.map" /\ ~CallbackRaised) =>
        /\ outcome.kind = "return"
        /\ outcome.val.ref # recv.ref
        /\ outcome.val = lvs

C17_Witness ==
    /\ op = "Loadable.getOrThrow"
    /\ outcome.kind = "throw"
    /\ Loadable_isFailure(recv)
    /\ lvs = recv
    /\ lvs = built.loadable

\* C18: predicates, hooks, fold, map, toString, getOrNull, getOrDefault,
\* errorOrNull and getRelevant never throw when the callbacks do not; the
\* 'unreachable state' error of EditableViewState is never thrown.
C18_OperationsAreTotal ==
    /\ (/\ op \in (LoadableMethodOps \cup EditableMethodOps) \ {"Loadable.getOrThrow"}
        /\ ~CallbackRaised) =>
        outcome.kind = "return"
    /\ outcome # [kind |-> "throw", val |-> UnreachableState]

C18_Witness ==
    /\ op = "Editable.toString"
    /\ Editable_isFailure(recv)
    /\ outcome.kind = "return"
    /\ outcome.val.k = "string"

\* The callbacks passed in the last call.
CallbacksPassed ==
    IF op \in LoadableHookOps \cup EditableHookOps \cup {"Loadable.map"}
    THEN {args[1]}
    ELSE IF op \in {"Loadable.fold", "Editable.fold"}
    THEN {args[i] : i \in 1..4}
    ELSE IF op \in {"Loadable.fold{}", "Editable.fold{}"}
    THEN {args[1].onSuccess, args[1].onFailure, args[1].onInitial, args[1].onLoading}
    ELSE IF op \in {"Loadable.chain", "Editable.chain"}
    THEN {args[i].perform : i \in 1..Len(args)}
    ELSE {}

\* C19: a callback passed to a hook, to fold or to map is invoked, if at all,
\* before the operation returns: when the operation has ended no invocation is
\* left to be made later, and every invocation made during an operation is of
\* a callback passed to that very call.
C19_CallbacksRunBeforeReturn ==
    /\ scheduled = <<>>
    /\ \A j \in 1..Len(calls) : calls[j].fn \in CallbacksPassed

C19_Witness ==
    /\ op = "Loadable.onSuccess"
    /\ Loadable_isSuccess(recv)
    /\ calls = <<Invocation(args[1], <<LoadableValue(recv)>>)>>
    /\ scheduled = <<>>
    /\ outcome.kind = "return"

\* What a method of LoadableViewState gives when it is the only call made on
\* the instance `this`.
LoadableAlone(name, this, argv) ==
    CASE name = "Loadable.isInitial" -> Return(Bool(Loadable_isInitial(this)), <<>>)
      [] name = "Loadable.isLoading" -> Return(Bool(Loadable_isLoading(this)), <<>>)
      [] name = "Loadable.isSuccess" -> Return(Bool(Loadable_isSuccess(this)), <<>>)
      [] name = "Loadable.isFailure" -> Return(Bool(Loadable_isFailure(this)), <<>>)
      [] name = "Loadable.getOrNull" -> Loadable_getOrNull(this)
      [] name = "Loadable.getOrDefault" -> Loadable_getOrDefault(this, argv[1])
      [] name = "Loadable.getOrThrow" -> Loadable_getOrThrow(this)
      [] name = "Loadable.errorOrNull" -> Loadable_errorOrNull(this)
      [] name = "Loadable.onInitial" -> Loadable_onInitial(this, argv[1])
      [] name = "Loadable.onLoading" -> Loadable_onLoading(this, argv[1])
      [] name = "Loadable.onSuccess" -> Loadable_onSuccess(this, argv[1])
      [] name = "Loadable.onFailure" -> Loadable_onFailure(this, argv[1])
      [] name = "Loadable.map" -> Loadable_map(this, argv[1], FreshRef({this.ref}))
      [] name = "Loadable.fold" -> Loadable_fold(this, argv[1], argv[2], argv[3], argv[4])
      [] name = "Loadable.fold{}" ->
            Loadable_fold(this, argv[1], Undefined, Undefined, Undefined)
      [] name = "Loadable.toString" -> Loadable_toString(this)

EditableAlone(name, this, argv) ==
    CASE name = "Editable.isInitial" -> Return(Bool(Editable_isInitial(this)), <<>>)
      [] name = "Editable.isLoading" -> Return(Bool(Editable_isLoading(this)), <<>>)
      [] name = "Editable.isSuccess" -> Return(Bool(Editable_isSuccess(this)), <<>>)
      [] name = "Editable.isFailure" -> Return(Bool(Editable_isFailure(this)), <<>>)
      [] name = "Editable.getRelevant" -> Editable_getRelevant(this)
      [] name = "Editable.errorOrNull" -> Editable_errorOrNull(this)
      [] name = "Editable.onInitial" -> Editable_onInitial(this, argv[1])
      [] name = "Editable.onLoading" -> Editable_onLoading(this, argv[1])
      [] name = "Editable.onSuccess" -> Editable_onSuccess(this, argv[1])
      [] name = "Editable.onFailure" -> Editable_onFailure(this, argv[1])
      [] name = "Editable.fold" -> Editable_fold(this, argv[1], argv[2], argv[3], argv[4])
      [] name = "Editable.fold{}" ->
            Editable_fold(this, argv[1], Undefined, Undefined, Undefined)
      [] name = "Editable.toString" -> Editable_toString(this)

\* One call made on a shared instance, after whatever calls other callers made
\* on it since it was built: it ends as the same call made alone on the
\* instance as built, and leaves the instance as built.
SharedCallIsAsAlone ==
    /\ op' \in LoadableMethodOps =>
        LET alone == LoadableAlone(op', built.loadable, args') IN
        /\ outcome' = alone.outcome
        /\ calls' = alone.calls
        /\ op' # "Loadable.map" => lvs' = built.loadable
        /\ evs' = built.editable
    /\ op' \in EditableMethodOps =>
        LET alone == EditableAlone(op', built.editable, args') IN
        /\ outcome' = alone.outcome
        /\ calls' = alone.calls
        /\ evs' = built.editable
        /\ lvs' = built.loadable

---------------------------------------------------------------------------
(* String rendering *)

\* C21: LoadableViewState.toString() returns "Initial" for Initial, "Loading"
\* for Loading, "Success: " followed by the string conversion of the value for
\* Success, and "Failure: " followed by the string conversion of the error for
\* Failure.
C21_LoadableToString ==
    op = "Loadable.toString" =>
        /\ outcome.kind = "return"
        /\ outcome.val =
            Str(CASE LoadableVariant(recv) = "initial" -> "Initial"
                  [] LoadableVariant(recv) = "loading" -> "Loading"
                  [] LoadableVariant(recv) = "success" ->
                        "Success: " \o JsString(LoadableValue(recv))
                  [] LoadableVariant(recv) = "failure" ->
                        "Failure: " \o JsString(LoadableError(recv)))

C21_Witness ==
    /\ op = "Loadable.toString"
    /\ Loadable_isFailure(recv)
    /\ LoadableError(recv) = E(2)
    /\ outcome.val = Str("Failure: Error: e2")

---------------------------------------------------------------------------
(* Laws of map *)

\* Structural equality of two LoadableViewState instances: same variant, same
\* value or same error.
StructurallyEqual(a, b) == a.loadableViewState = b.loadableViewState

\* C23: for every instance s and all transforms f and g, f returning null
\* included, s.map(f).map(g) is structurally equal to s.map(x => g(f(x))).
\* The state is the one after s.map(f): recv is s, args[1] is f and lvs is
\* s.map(f).
C23_MapComposes ==
    op = "Loadable.map" =>
        \A g \in Transforms :
            LET twice == Loadable_map(lvs, g, FreshRef({lvs.ref}))
                once == Loadable_map(recv, Compose(g, args[1]), FreshRef({recv.ref}))
            IN /\ twice.outcome.kind = "return"
               /\ once.outcome.kind = "return"
               /\ StructurallyEqual(twice.outcome.val, once.outcome.val)

\* C24: for every instance s, success(null) included, s.map(x => x) is
\* structurally equal to s.
C24_MapIdentity ==
    (op = "Loadable.map" /\ args[1] = Fn("transform", 1)) =>
        /\ outcome.kind = "return"
        /\ StructurallyEqual(outcome.val, recv)

---------------------------------------------------------------------------
(* Accessors and fold *)

PositionalArgs(h) == <<h["onSuccess"], h["onFailure"], h["onInitial"], h["onLoading"]>>

\* C25: for every LoadableViewState s, s.fold(v => v, e => null, () => null,
\* () => null) returns what getOrNull() returns, s.fold(v => null, e => e,
\* () => null, () => null) returns what errorOrNull() returns, and the handler
\* fold invokes is the one of the variant whose predicate is true.
C25_LoadableAccessorsAgreeWithFold ==
    op = "Loadable.fold" =>
        /\ args = PositionalArgs(GetOrNullHandlers) =>
            outcome = Loadable_getOrNull(recv).outcome
        /\ args = PositionalArgs(ErrorOrNullHandlers) =>
            outcome = Loadable_errorOrNull(recv).outcome
        /\ Len(calls) = 1
        /\ \A v \in FactoryNames :
            LoadablePredicates(recv) = Only(v) => calls[1].fn = args[PositionOf(v)]

C25_Witness ==
    /\ op = "Loadable.fold"
    /\ args = PositionalArgs(ErrorOrNullHandlers)
    /\ Loadable_isFailure(recv)
    /\ outcome = [kind |-> "return", val |-> E(1)]
    /\ outcome = Loadable_errorOrNull(recv).outcome

\* C26: for every EditableViewState s, s.fold((old, succeeded) => succeeded,
\* (current, failed, error) => current, value => value,
\* (current, target) => current) returns what getRelevant() returns, and the
\* fold that returns the error for Failure and null for the other variants
\* returns what errorOrNull() returns.
C26_EditableAccessorsAgreeWithFold ==
    op = "Editable.fold" =>
        /\ args = PositionalArgs(GetRelevantHandlers) =>
            outcome = Editable_getRelevant(recv).outcome
        /\ args = PositionalArgs(EditableErrorOrNullHandlers) =>
            outcome = Editable_errorOrNull(recv).outcome

C26_Witness ==
    /\ op = "Editable.fold"
    /\ args = PositionalArgs(GetRelevantHandlers)
    /\ Editable_isFailure(recv)
    /\ recv.editableViewState.current # recv.editableViewState.failed
    /\ outcome = [kind |-> "return", val |-> recv.editableViewState.current]
    /\ outcome = Editable_getRelevant(recv).outcome

---------------------------------------------------------------------------
(* Chains of hooks *)

\* C27: for both types and every instance s, a chain of the four hooks in any
\* order invokes exactly one of the four actions, once: the one given to the
\* hook of s's variant; and the chain returns s itself.
C27_HookChainRunsOneAction ==
    /\ op = "Loadable.chain" =>
        /\ calls = <<Invocation(ChainAction(HookName(LoadableVariant(recv))),
                                LoadablePayload(recv))>>
        /\ outcome = [kind |-> "return", val |-> recv]
        /\ lvs = recv
    /\ op = "Editable.chain" =>
        /\ calls = <<Invocation(ChainAction(HookName(EditableVariant(recv))),
                                EditablePayload(recv))>>
        /\ outcome = [kind |-> "return", val |-> recv]
        /\ evs = recv

C27_Witness ==
    /\ op = "Loadable.chain"
    /\ args[1].hook = "onFailure"
    /\ args[4].hook = "onLoading"
    /\ Loadable_isLoading(recv)
    /\ calls = <<Invocation(args[4].perform, <<>>)>>
    /\ outcome.kind = "return"
    /\ outcome.val.ref = recv.ref

---------------------------------------------------------------------------
(* Invariants of the reachable instances *)

\* C28: for every LoadableViewState reached through the factories and map, a
\* getOrNull() other than null implies isSuccess, an errorOrNull() other than
\* null implies isFailure, and the two are never both other than null.
C28_AccessorsFollowVariant ==
    LET value == Loadable_getOrNull(lvs).outcome.val
        error == Loadable_errorOrNull(lvs).outcome.val
    IN /\ value # Null => Loadable_isSuccess(lvs)
       /\ error # Null => Loadable_isFailure(lvs)
       /\ ~(value # Null /\ error # Null)

C28_Witness ==
    /\ op = "Loadable.map"
    /\ outcome.kind = "return"
    /\ Loadable_isSuccess(lvs)
    /\ Loadable_getOrNull(lvs).outcome.val \in {V(i) : i \in 1..NumValues}
    /\ Loadable_errorOrNull(lvs).outcome.val = Null

---------------------------------------------------------------------------
(* Callbacks that raise *)

\* C29: when a callback passed to a hook, to fold or to map raises, the
\* operation throws that same error to its caller, has invoked no other
\* callback, returns nothing, and leaves the receiver with the variant and
\* the payload it had.
C29_CallbackErrorPropagates ==
    CallbackRaised =>
        /\ Len(calls) = 1
        /\ outcome = [kind |-> "throw", val |-> Raised(calls[1].fn)]
        /\ lvs = built.loadable
        /\ evs = built.editable
        /\ recv \in {lvs, evs}

C29_Witness ==
    /\ op = "Editable.fold{}"
    /\ Editable_isFailure(recv)
    /\ Raises(args[1].onFailure)
    /\ calls = <<Invocation(args[1].onFailure, EditablePayload(recv))>>
    /\ outcome = [kind |-> "throw", val |-> Raised(args[1].onFailure)]
    /\ evs = recv

====
